---------------------------- MODULE Spec2Model ----------------------------
(***************************************************************************)
(* A model of codex_notify.py: the dispatcher main, the two channel        *)
(* senders send_feishu and send_windows run by a two-worker thread pool,   *)
(* and the pure helpers truncate and escape_for_powershell.                *)
(*                                                                         *)
(* A Python str is a sequence of one-character strings.  A value read from *)
(* JSON is a record [k, b, s]: k its Python type, b the value of a bool,   *)
(* s the characters of a str.  Absent marks a key that a dict lacks.       *)
(***************************************************************************)
EXTENDS Integers, Sequences, FiniteSets, TLC

VARIABLES
    arg,        \* sys.argv[1:]: present?, parseable?, the value json.loads gives
    cfgFile,    \* config.json on disk: exists?, parseable?, the value json.load gives
    pc,         \* position of the main thread
    exitCode,   \* process exit status, -1 while the process runs
    crashed,    \* TRUE when main ended by an uncaught exception (traceback)
    event,      \* main's local `event`
    config,     \* main's local `config`
    title,      \* the senders' parameter `title`
    summary,    \* the senders' parameter `summary` / `content`
    cwd,        \* send_feishu's parameter `cwd`
    fpc,        \* position of the worker running send_feishu
    wpc,        \* position of the worker running send_windows
    fres,       \* what urlopen / the response did in send_feishu
    wres,       \* what subprocess.run did in send_windows
    posts,      \* webhook POSTs attempted (urlopen calls), in order
    procs,      \* subprocess.run calls attempted, in order
    stderr,     \* lines printed to sys.stderr, in order
    tpc,        \* position of a direct call of truncate
    text,       \* truncate's parameter `text`
    max_len,    \* truncate's parameter `max_len`
    result      \* truncate's return value

vars == <<arg, cfgFile, pc, exitCode, crashed, event, config, title, summary,
          cwd, fpc, wpc, fres, wres, posts, procs, stderr, tpc, text, max_len,
          result>>

mainVars == <<arg, cfgFile, pc, exitCode, crashed, event, config, title,
              summary, cwd>>
truncVars == <<tpc, text, max_len, result>>

---------------------------------------------------------------------------
(* Bounds of the inputs.                                                   *)

\* Longest short message text drawn for a run of main or a direct sender call.
MaxText == 1
\* Longest text drawn for the escaping cases of send_windows.
MaxEsc == 2
\* Longest text and largest |max_len| drawn for a direct call of truncate.
MaxLen == 4
MaxN == 5

---------------------------------------------------------------------------
(* Python values.                                                          *)

Absent == [k |-> "absent", b |-> FALSE, s |-> <<>>]
JNull == [k |-> "null", b |-> FALSE, s |-> <<>>]
JNum == [k |-> "num", b |-> FALSE, s |-> <<"5">>]
JBool(v) == [k |-> "bool", b |-> v, s |-> <<>>]
JStr(chars) == [k |-> "str", b |-> FALSE, s |-> chars]

\* bool(v) of a value read from JSON.
Truthy(v) ==
    CASE v.k = "str" -> v.s # <<>>
      [] v.k = "bool" -> v.b
      [] v.k = "num" -> TRUE
      [] OTHER -> FALSE

\* dict.get(key, default), `field` being the dict's entry or Absent.
Get(field, default) == IF field = Absent THEN default ELSE field

\* str(v), as an f-string formats a value.
Format(v) ==
    CASE v.k = "str" -> v.s
      [] v.k = "null" -> <<"N", "o", "n", "e">>
      [] v.k = "bool" -> IF v.b THEN <<"T", "r", "u", "e">>
                                ELSE <<"F", "a", "l", "s", "e">>
      [] OTHER -> v.s

\* text[:m] of a Python sequence.
SliceTo(s, m) ==
    LET n == Len(s)
        e == IF m < 0 THEN (IF n + m < 0 THEN 0 ELSE n + m)
                      ELSE (IF m > n THEN n ELSE m)
    IN  SubSeq(s, 1, e)

\* `sub in s` for two strs.
Contains(sub, s) ==
    \E i \in 0..(Len(s) - Len(sub)) : SubSeq(s, i + 1, i + Len(sub)) = sub

\* s.replace(c, r) for a one-character c.
RECURSIVE Replace(_, _, _)
Replace(s, c, r) ==
    IF Len(s) = 0 THEN <<>>
    ELSE IF Len(s) = 1 THEN (IF s[1] = c THEN r ELSE s)
    ELSE LET h == Len(s) \div 2
         IN  Replace(SubSeq(s, 1, h), c, r)
               \o Replace(SubSeq(s, h + 1, Len(s)), c, r)

---------------------------------------------------------------------------
(* Program constants.                                                      *)

EventType == <<"a", "g", "e", "n", "t", "-", "t", "u", "r", "n", "-",
               "c", "o", "m", "p", "l", "e", "t", "e">>
DefaultSummary == <<"C", "o", "d", "e", "x", " ", "C", "L", "I", " ",
                    "s", "e", "s", "s", "i", "o", "n", " ",
                    "c", "o", "m", "p", "l", "e", "t", "e", "d">>
Title == <<"C", "o", "d", "e", "x", " ", "C", "L", "I", " ",
           "T", "a", "s", "k", " ",
           "C", "o", "m", "p", "l", "e", "t", "e", "d">>
Placeholder == <<"Y", "O", "U", "R", "_", "W", "E", "B", "H", "O", "O", "K",
                 "_", "I", "D">>
Ellipsis == <<".", ".", ".">>
SummaryMax == 500
ToastTitleMax == 100
ToastContentMax == 200

---------------------------------------------------------------------------
(* truncate and escape_for_powershell.                                     *)

\* truncate with the length test off by one (< for <=).
truncate_lt(t, m) ==
    IF Len(t) < m THEN t ELSE SliceTo(t, m) \o Ellipsis

truncate(t, m) ==
    IF Len(t) <= m THEN t ELSE SliceTo(t, m) \o Ellipsis

AMP == <<"&", "a", "m", "p", ";">>
LT == <<"&", "l", "t", ";">>
GT == <<"&", "g", "t", ";">>
QUOT == <<"&", "q", "u", "o", "t", ";">>
APOS == <<"&", "a", "p", "o", "s", ";">>

\* escape_for_powershell with & replaced after the other characters.
escape_amp_last(s) ==
    LET s1 == Replace(s, "<", LT)
        s2 == Replace(s1, ">", GT)
        s3 == Replace(s2, "\"", QUOT)
        s4 == Replace(s3, "'", APOS)
        s5 == Replace(s4, "&", AMP)
        s6 == Replace(s5, "\n", <<" ">>)
    IN  Replace(s6, "\r", <<>>)

escape_for_powershell(s) ==
    LET s1 == Replace(s, "&", AMP)
        s2 == Replace(s1, "<", LT)
        s3 == Replace(s2, ">", GT)
        s4 == Replace(s3, "\"", QUOT)
        s5 == Replace(s4, "'", APOS)
        s6 == Replace(s5, "\n", <<" ">>)
    IN  Replace(s6, "\r", <<>>)

---------------------------------------------------------------------------
(* The inputs: command lines, event payloads, configuration files, texts.  *)

\* All strs over `alphabet` of length at most n.
Texts(alphabet, n) == UNION {[1..k -> alphabet] : k \in 0..n}

\* A run of n plain characters.
Pad(n) == [i \in 1..n |-> "a"]

OtherType == <<"o", "t", "h", "e", "r", "-", "e", "v", "e", "n", "t">>
Tmp == <<"/", "t", "m", "p">>
UrlBase == <<"h", "t", "t", "p", "s", ":", "/", "/", "h", "/">>
RealUrl == UrlBase \o <<"x", "y", "z">>
PlaceholderUrl == UrlBase \o Placeholder
PlaceholderMidUrl == UrlBase \o Placeholder \o <<"/", "x">>

\* Message texts: short ones, and ones around the three truncation limits.
ShortTexts == Texts({"d", "&"}, MaxText)
LongTexts ==
    { Pad(ToastContentMax - 1) \o <<"&", "<">>,
      Pad(SummaryMax),
      Pad(SummaryMax) \o <<"d">> }
Summaries == {Absent, JNull} \cup {JStr(t) : t \in ShortTexts \cup LongTexts}
Cwds == {Absent, JNull, JStr(<<>>), JStr(Tmp)}
Types == {Absent, JNull, JStr(EventType), JStr(OtherType)}

NoEvent == [k |-> "none", type |-> Absent, msg |-> Absent, cwd |-> Absent]
\* json.loads gave a list, a number, a str, a bool or None.
NonObjectEvent == [k |-> "other", type |-> Absent, msg |-> Absent, cwd |-> Absent]
Events ==
    {NonObjectEvent} \cup
    {[k |-> "object", type |-> t, msg |-> m, cwd |-> c] :
        t \in Types, m \in Summaries, c \in Cwds}

Args ==
    { [present |-> FALSE, valid |-> FALSE, value |-> NoEvent],
      [present |-> TRUE, valid |-> FALSE, value |-> NoEvent] } \cup
    {[present |-> TRUE, valid |-> TRUE, value |-> e] : e \in Events}

\* A sub-record of the configuration: missing, not a dict, or a dict.
NoSection == [k |-> "absent", enabled |-> Absent, webhookUrl |-> Absent]
BadSection == [k |-> "other", enabled |-> Absent, webhookUrl |-> Absent]
Enableds == {Absent, JBool(FALSE), JBool(TRUE)}
Urls == {Absent, JNum, JStr(<<>>), JStr(PlaceholderUrl),
         JStr(PlaceholderMidUrl), JStr(RealUrl)}
FeishuSections ==
    {NoSection, BadSection} \cup
    {[k |-> "dict", enabled |-> e, webhookUrl |-> u] : e \in Enableds, u \in Urls}
WindowsSections ==
    {NoSection, BadSection} \cup
    {[k |-> "dict", enabled |-> e, webhookUrl |-> Absent] : e \in Enableds}

\* `config` before load_config, and load_config's None.
NoConfig == [k |-> "none", truthy |-> FALSE, feishu |-> NoSection,
             windows |-> NoSection]
\* What json.load gives: a dict (truthy unless empty), or another JSON value.
ConfigValues ==
    {[k |-> "other", truthy |-> t, feishu |-> NoSection, windows |-> NoSection] :
        t \in BOOLEAN} \cup
    {c \in [k : {"dict"}, truthy : BOOLEAN, feishu : FeishuSections,
            windows : WindowsSections] :
        (c.feishu # NoSection \/ c.windows # NoSection) => c.truthy}
CfgFiles ==
    { [exists |-> FALSE, wellformed |-> FALSE, val |-> NoConfig],
      [exists |-> TRUE, wellformed |-> FALSE, val |-> NoConfig] } \cup
    {[exists |-> TRUE, wellformed |-> TRUE, val |-> v] : v \in ConfigValues}

\* What the webhook does to a POST, and the operating system to a subprocess.
FeishuOutcomes == {"ok", "error_code", "malformed", "transport"}
WindowsOutcomes == {"ok", "nonzero", "missing", "timeout"}

---------------------------------------------------------------------------
(* The decisions of main and of the senders.                               *)

\* The type test with the recognized value as the default of a missing type.
EventRecognized_default(ev) == Get(ev.type, JStr(EventType)) = JStr(EventType)

\* main: event.get("type", "") == "agent-turn-complete"
EventRecognized(ev) == Get(ev.type, JStr(<<>>)) = JStr(EventType)

\* send_feishu's early returns without the placeholder test.
FeishuGate_noPlaceholder(cfg) ==
    IF cfg.k # "dict" \/ cfg.feishu.k = "other" THEN "raise"
    ELSE LET enabled == Get(cfg.feishu.enabled, JBool(FALSE))
             url == Get(cfg.feishu.webhookUrl, JStr(<<>>))
         IN  IF ~Truthy(enabled) THEN "disabled"
             ELSE IF ~Truthy(url) THEN "unconfigured"
             ELSE IF url.k # "str" THEN "raise"
             ELSE "send"

\* send_feishu up to its second return: AttributeError or TypeError
\* ("raise"), the two no-op returns, or go on to build and send the card.
FeishuGate(cfg) ==
    IF cfg.k # "dict" \/ cfg.feishu.k = "other" THEN "raise"
    ELSE LET enabled == Get(cfg.feishu.enabled, JBool(FALSE))
             url == Get(cfg.feishu.webhookUrl, JStr(<<>>))
         IN  IF ~Truthy(enabled) THEN "disabled"
             ELSE IF ~Truthy(url) THEN "unconfigured"
             ELSE IF url.k # "str" THEN "raise"
             ELSE IF Contains(Placeholder, url.s) THEN "unconfigured"
             ELSE "send"

\* send_windows's early return with the channel on by default.
WindowsGate_defaultOn(cfg) ==
    IF cfg.k # "dict" \/ cfg.windows.k = "other" THEN "raise"
    ELSE IF ~Truthy(Get(cfg.windows.enabled, JBool(TRUE))) THEN "disabled"
    ELSE "send"

\* send_windows up to its first return.
WindowsGate(cfg) ==
    IF cfg.k # "dict" \/ cfg.windows.k = "other" THEN "raise"
    ELSE IF ~Truthy(Get(cfg.windows.enabled, JBool(FALSE))) THEN "disabled"
    ELSE "send"

\* The card send_feishu builds: the endpoint, the header title, the summary
\* block, and the working-directory block when cwd is truthy.
Card(cfg, ttl, sum, dir) ==
    [ url |-> cfg.feishu.webhookUrl.s,
      title |-> Format(ttl),
      summary |-> truncate(sum.s, SummaryMax),
      hasCwd |-> Truthy(dir),
      cwd |-> IF Truthy(dir) THEN Format(dir) ELSE <<>> ]

\* The two texts send_windows substitutes into the toast template.
Toast(ttl, content) ==
    [ title |-> escape_for_powershell(truncate(ttl.s, ToastTitleMax)),
      content |-> escape_for_powershell(truncate(content.s, ToastContentMax)) ]

---------------------------------------------------------------------------
(* The main thread.                                                        *)

Finished == {"done", "raised"}

\* sys.exit(code) after printing `lines`, or an uncaught exception (`crash`).
Die(code, lines, crash) ==
    /\ pc' = "exit"
    /\ exitCode' = code
    /\ crashed' = crash
    /\ stderr' = stderr \o lines

\* main: the check of len(sys.argv).
CheckArgv ==
    /\ pc = "argv"
    /\ IF ~arg.present
       THEN Die(1, <<"no_arg">>, FALSE)
       ELSE pc' = "parse" /\ UNCHANGED <<exitCode, crashed, stderr>>
    /\ UNCHANGED <<arg, cfgFile, event, config, title, summary, cwd, fpc, wpc,
                   fres, wres, posts, procs, truncVars>>

\* main: json.loads(sys.argv[1]) and its except clause.
ParseEvent ==
    /\ pc = "parse"
    /\ IF ~arg.valid
       THEN Die(1, <<"invalid_json">>, FALSE) /\ UNCHANGED event
       ELSE /\ pc' = "type"
            /\ event' = arg.value
            /\ UNCHANGED <<exitCode, crashed, stderr>>
    /\ UNCHANGED <<arg, cfgFile, config, title, summary, cwd, fpc, wpc, fres,
                   wres, posts, procs, truncVars>>

\* main: the test of the event's type.  A value that is not a dict has no
\* .get: AttributeError, uncaught, which ends the process with status 1.
CheckType ==
    /\ pc = "type"
    /\ IF event.k # "object"
       THEN Die(1, <<"traceback">>, TRUE)
       ELSE IF ~EventRecognized(event)
       THEN Die(0, <<>>, FALSE)
       ELSE pc' = "config" /\ UNCHANGED <<exitCode, crashed, stderr>>
    /\ UNCHANGED <<arg, cfgFile, event, config, title, summary, cwd, fpc, wpc,
                   fres, wres, posts, procs, truncVars>>

\* LoadConfig going on with an empty configuration when the file is missing.
LoadConfig_ignoreMissing ==
    /\ pc = "config"
    /\ IF cfgFile.exists /\ ~cfgFile.wellformed
       THEN Die(1, <<"traceback">>, TRUE)
              /\ UNCHANGED <<config, title, summary, cwd>>
       ELSE /\ pc' = "submit_feishu"
            /\ config' = IF cfgFile.exists THEN cfgFile.val
                         ELSE [NoConfig EXCEPT !.k = "dict"]
            /\ summary' = Get(event.msg, JStr(DefaultSummary))
            /\ cwd' = Get(event.cwd, JStr(<<>>))
            /\ title' = JStr(Title)
            /\ UNCHANGED <<exitCode, crashed, stderr>>
    /\ UNCHANGED <<arg, cfgFile, event, fpc, wpc, fres, wres, posts, procs,
                   truncVars>>

\* main: load_config(), the test of its result, and the extraction of the
\* summary, the working directory and the title.  A file that json.load
\* rejects raises out of main.
LoadConfig ==
    /\ pc = "config"
    /\ IF ~cfgFile.exists
       THEN Die(1, <<"config_not_found">>, FALSE)
              /\ UNCHANGED <<config, title, summary, cwd>>
       ELSE IF ~cfgFile.wellformed
       THEN Die(1, <<"traceback">>, TRUE)
              /\ UNCHANGED <<config, title, summary, cwd>>
       ELSE IF ~cfgFile.val.truthy
       THEN Die(1, <<>>, FALSE) /\ config' = cfgFile.val
              /\ UNCHANGED <<title, summary, cwd>>
       ELSE /\ pc' = "submit_feishu"
            /\ config' = cfgFile.val
            /\ summary' = Get(event.msg, JStr(DefaultSummary))
            /\ cwd' = Get(event.cwd, JStr(<<>>))
            /\ title' = JStr(Title)
            /\ UNCHANGED <<exitCode, crashed, stderr>>
    /\ UNCHANGED <<arg, cfgFile, event, fpc, wpc, fres, wres, posts, procs,
                   truncVars>>

\* main: executor.submit(send_feishu, config, title, summary, cwd)
SubmitFeishu ==
    /\ pc = "submit_feishu"
    /\ pc' = "submit_windows"
    /\ fpc' = "queued"
    /\ UNCHANGED <<arg, cfgFile, exitCode, crashed, event, config, title,
                   summary, cwd, wpc, fres, wres, posts, procs, stderr,
                   truncVars>>

\* main: executor.submit(send_windows, config, title, summary)
SubmitWindows ==
    /\ pc = "submit_windows"
    /\ pc' = "shutdown"
    /\ wpc' = "queued"
    /\ UNCHANGED <<arg, cfgFile, exitCode, crashed, event, config, title,
                   summary, cwd, fpc, fres, wres, posts, procs, stderr,
                   truncVars>>

\* The end of the with block as shutdown(wait=False) would make it.
Shutdown_nowait ==
    /\ pc = "shutdown"
    /\ pc' = "exit"
    /\ exitCode' = 0
    /\ UNCHANGED <<arg, cfgFile, crashed, event, config, title, summary, cwd,
                   fpc, wpc, fres, wres, posts, procs, stderr, truncVars>>

\* main: the end of the with block.  ThreadPoolExecutor.__exit__ calls
\* shutdown(wait=True), which joins both workers; the futures are dropped
\* unread, and main returns: exit status 0.
Shutdown ==
    /\ pc = "shutdown"
    /\ fpc \in Finished
    /\ wpc \in Finished
    /\ pc' = "exit"
    /\ exitCode' = 0
    /\ UNCHANGED <<arg, cfgFile, crashed, event, config, title, summary, cwd,
                   fpc, wpc, fres, wres, posts, procs, stderr, truncVars>>

---------------------------------------------------------------------------
(* The two workers.  An exception that leaves a sender is stored in its    *)
(* future and the worker goes on ("raised").                               *)

\* send_feishu up to urlopen: the no-op returns, the card, the request.
\* truncate(summary, 500) takes len(summary): TypeError unless a str.
FeishuStart ==
    /\ fpc = "queued"
    /\ LET g == FeishuGate(config)
       IN  CASE g = "raise" ->
                  fpc' = "raised" /\ UNCHANGED <<posts, stderr>>
             [] g = "disabled" ->
                  fpc' = "done" /\ UNCHANGED <<posts, stderr>>
             [] g = "unconfigured" ->
                  /\ fpc' = "done"
                  /\ stderr' = Append(stderr, "feishu_not_configured")
                  /\ UNCHANGED posts
             [] OTHER ->
                  IF summary.k # "str"
                  THEN fpc' = "raised" /\ UNCHANGED <<posts, stderr>>
                  ELSE /\ fpc' = "posting"
                       /\ posts' = Append(posts, Card(config, title, summary, cwd))
                       /\ UNCHANGED stderr
    /\ UNCHANGED <<mainVars, wpc, fres, wres, procs, truncVars>>

\* The try block sending again after a transport failure.
FeishuFinish_retry ==
    /\ fpc = "posting"
    /\ \E o \in FeishuOutcomes :
        /\ fres' = o
        /\ fpc' = IF o = "transport" THEN "queued" ELSE "done"
        /\ stderr' = IF o = "ok" THEN stderr
                     ELSE IF o = "error_code" THEN Append(stderr, "feishu_error")
                     ELSE Append(stderr, "feishu_failed")
    /\ UNCHANGED <<mainVars, wpc, wres, posts, procs, truncVars>>

\* The try block with an except clause that lets a malformed body through.
FeishuFinish_narrowExcept ==
    /\ fpc = "posting"
    /\ \E o \in FeishuOutcomes :
        /\ fres' = o
        /\ fpc' = IF o = "malformed" THEN "raised" ELSE "done"
        /\ stderr' = IF o \in {"ok", "malformed"} THEN stderr
                     ELSE IF o = "error_code" THEN Append(stderr, "feishu_error")
                     ELSE Append(stderr, "feishu_failed")
    /\ UNCHANGED <<mainVars, wpc, wres, posts, procs, truncVars>>

\* send_feishu's try block from urlopen on: the response is read and its
\* `code` tested; `except Exception` takes a transport failure, a timeout
\* and a body that is not a JSON object.  The sender returns in every case.
FeishuFinish ==
    /\ fpc = "posting"
    /\ \E o \in FeishuOutcomes :
        /\ fres' = o
        /\ fpc' = "done"
        /\ stderr' = IF o = "ok" THEN stderr
                     ELSE IF o = "error_code" THEN Append(stderr, "feishu_error")
                     ELSE Append(stderr, "feishu_failed")
    /\ UNCHANGED <<mainVars, wpc, wres, posts, procs, truncVars>>

\* send_windows up to subprocess.run: the no-op return, the two escaped
\* texts, the script.  truncate takes len(): TypeError unless a str.
WinStart ==
    /\ wpc = "queued"
    /\ LET g == WindowsGate(config)
       IN  CASE g = "raise" -> wpc' = "raised" /\ UNCHANGED procs
             [] g = "disabled" -> wpc' = "done" /\ UNCHANGED procs
             [] OTHER ->
                  IF title.k # "str" \/ summary.k # "str"
                  THEN wpc' = "raised" /\ UNCHANGED procs
                  ELSE /\ wpc' = "running"
                       /\ procs' = Append(procs, Toast(title, summary))
    /\ UNCHANGED <<mainVars, fpc, fres, wres, posts, stderr, truncVars>>

\* send_windows's try block: subprocess.run without check=True returns a
\* CompletedProcess whatever the exit status, and the status is never read;
\* FileNotFoundError and TimeoutExpired are caught and logged.
WinFinish ==
    /\ wpc = "running"
    /\ \E o \in WindowsOutcomes :
        /\ wres' = o
        /\ wpc' = "done"
        /\ stderr' = IF o \in {"missing", "timeout"}
                     THEN Append(stderr, "windows_failed")
                     ELSE stderr
    /\ UNCHANGED <<mainVars, fpc, fres, posts, procs, truncVars>>

---------------------------------------------------------------------------
(* A run of the program.                                                   *)

NoCall ==
    /\ tpc = "off" /\ text = <<>> /\ max_len = 0 /\ result = <<>>

Init ==
    /\ arg \in Args
    /\ cfgFile \in CfgFiles
    /\ pc = "argv"
    /\ exitCode = -1
    /\ crashed = FALSE
    /\ event = NoEvent
    /\ config = NoConfig
    /\ title = Absent /\ summary = Absent /\ cwd = Absent
    /\ fpc = "idle" /\ wpc = "idle"
    /\ fres = "none" /\ wres = "none"
    /\ posts = <<>> /\ procs = <<>> /\ stderr = <<>>
    /\ NoCall

Next ==
    \/ CheckArgv
    \/ ParseEvent
    \/ CheckType
    \/ LoadConfig
    \/ SubmitFeishu
    \/ SubmitWindows
    \/ Shutdown
    \/ FeishuStart
    \/ FeishuFinish
    \/ WinStart
    \/ WinFinish

Spec == Init /\ [][Next]_vars

---------------------------------------------------------------------------
(* The senders called directly, with any configuration, title and text.    *)

EscAlphabet == {"&", "<", ">", "\"", "'", "\n", "\r", "a", ";"}
EscTexts == Texts(EscAlphabet, MaxEsc)
FewTexts == {<<>>, <<"<", "&">>, Pad(ToastTitleMax - 1) \o <<"&", "<">>}
SenderTitles == {Title, <<>>, Pad(ToastTitleMax) \o <<"<">>}
ToastOnly == [k |-> "dict", truthy |-> TRUE, feishu |-> NoSection,
              windows |-> [k |-> "dict", enabled |-> JBool(TRUE),
                           webhookUrl |-> Absent]]

InitSenders ==
    /\ arg = [present |-> FALSE, valid |-> FALSE, value |-> NoEvent]
    /\ cfgFile = [exists |-> FALSE, wellformed |-> FALSE, val |-> NoConfig]
    /\ pc = "call"
    /\ exitCode = -1
    /\ crashed = FALSE
    /\ event = NoEvent
    /\ \/ /\ config \in ConfigValues
          /\ title \in {JStr(t) : t \in SenderTitles}
          /\ summary \in Summaries \ {Absent}
          /\ cwd \in Cwds \ {Absent}
       \/ /\ config = ToastOnly
          /\ cwd = JNull
          /\ \/ title \in {JStr(t) : t \in EscTexts}
                /\ summary \in {JStr(t) : t \in FewTexts}
             \/ title \in {JStr(t) : t \in FewTexts}
                /\ summary \in {JStr(t) : t \in EscTexts}
    /\ fpc = "queued" /\ wpc = "queued"
    /\ fres = "none" /\ wres = "none"
    /\ posts = <<>> /\ procs = <<>> /\ stderr = <<>>
    /\ NoCall

NextSenders ==
    \/ FeishuStart
    \/ FeishuFinish
    \/ WinStart
    \/ WinFinish

SpecSenders == InitSenders /\ [][NextSenders]_vars

---------------------------------------------------------------------------
(* truncate called directly.                                               *)

TruncateCall ==
    /\ tpc = "call"
    /\ tpc' = "done"
    /\ result' = truncate(text, max_len)
    /\ UNCHANGED <<mainVars, fpc, wpc, fres, wres, posts, procs, stderr, text,
                   max_len>>

InitTruncate ==
    /\ arg = [present |-> FALSE, valid |-> FALSE, value |-> NoEvent]
    /\ cfgFile = [exists |-> FALSE, wellformed |-> FALSE, val |-> NoConfig]
    /\ pc = "call"
    /\ exitCode = -1
    /\ crashed = FALSE
    /\ event = NoEvent
    /\ config = NoConfig
    /\ title = Absent /\ summary = Absent /\ cwd = Absent
    /\ fpc = "idle" /\ wpc = "idle"
    /\ fres = "none" /\ wres = "none"
    /\ posts = <<>> /\ procs = <<>> /\ stderr = <<>>
    /\ tpc = "call"
    /\ text \in Texts({"a", "b"}, MaxLen)
    /\ max_len \in (0 - MaxN)..MaxN
    /\ result = <<>>

NextTruncate == TruncateCall

SpecTruncate == InitTruncate /\ [][NextTruncate]_vars

---------------------------------------------------------------------------
(* Properties.  The inputs of a run are read from arg and cfgFile, which   *)
(* no action changes.                                                      *)

Range(q) == {q[i] : i \in 1..Len(q)}

\* The first n characters of t followed by "...", or t when it fits.
Cut(t, n) ==
    IF Len(t) <= n THEN t
    ELSE [i \in 1..(n + 3) |-> IF i <= n THEN t[i] ELSE "."]

ParsedObject == arg.present /\ arg.valid /\ arg.value.k = "object"
RecognizedEvent == ParsedObject /\ arg.value.type = JStr(EventType)
IgnoredEvent == ParsedObject /\ arg.value.type # JStr(EventType)
NothingSent ==
    /\ fpc = "idle" /\ wpc = "idle"
    /\ posts = <<>> /\ procs = <<>>
    /\ fres = "none" /\ wres = "none"
Dispatched == fpc # "idle"

\* C1: a run whose event is a JSON object with a type other than
\* "agent-turn-complete", or with no type, never gets past the type test:
\* it invokes neither sender, and when it has exited, it has exited with
\* status 0 and without a traceback, whatever the other fields and the
\* configuration file are.
C1_IgnoredEventExitsZero ==
    IgnoredEvent =>
        /\ NothingSent
        /\ pc \in {"argv", "parse", "type", "exit"}
        /\ pc = "exit" => (exitCode = 0 /\ ~crashed /\ stderr = <<>>)

C1_Witness ==
    /\ IgnoredEvent
    /\ arg.value.type = Absent
    /\ arg.value.msg = JNull
    /\ ~cfgFile.exists
    /\ pc = "exit" /\ exitCode = 0

FatalInput ==
    \/ ~arg.present
    \/ ~arg.valid
    \/ RecognizedEvent /\ ~cfgFile.exists

\* C2: a run with no argument, with an argument that is not JSON, or with
\* a recognized event and no configuration file invokes no sender at any
\* point, and when it has exited, it has exited with status 1.
C2_FatalInputExitsOne ==
    FatalInput =>
        /\ NothingSent
        /\ pc = "exit" => (exitCode = 1 /\ stderr # <<>>)

C2_Witness ==
    /\ RecognizedEvent
    /\ ~cfgFile.exists
    /\ pc = "exit" /\ exitCode = 1
    /\ stderr = <<"config_not_found">>

\* The event's summary is a string, or absent (the fallback text is used).
EventSummary ==
    IF arg.value.msg = Absent THEN DefaultSummary ELSE arg.value.msg.s
EventCwd == IF arg.value.cwd.k = "str" THEN arg.value.cwd.s ELSE <<>>
BothChannelsEnabled ==
    /\ cfgFile.exists /\ cfgFile.wellformed
    /\ cfgFile.val.k = "dict"
    /\ cfgFile.val.feishu.k = "dict"
    /\ cfgFile.val.feishu.enabled = JBool(TRUE)
    /\ cfgFile.val.feishu.webhookUrl.k = "str"
    /\ cfgFile.val.feishu.webhookUrl.s # <<>>
    /\ ~Contains(Placeholder, cfgFile.val.feishu.webhookUrl.s)
    /\ cfgFile.val.windows.k = "dict"
    /\ cfgFile.val.windows.enabled = JBool(TRUE)
EndToEnd ==
    /\ RecognizedEvent
    /\ arg.value.msg.k \in {"absent", "str"}
    /\ BothChannelsEnabled

\* C3: for a recognized event whose summary is a string or absent, with a
\* valid configuration and both channels enabled, there is never more than
\* one POST nor more than one subprocess call, and at exit there is exactly
\* one of each: the POST goes to the configured endpoint with the title, the
\* summary cut to 500 characters and the working directory when it is not
\* empty; the subprocess gets the escaped summary cut to 200 characters; and
\* the exit status is 0.
C3_OnePostOneToast ==
    EndToEnd =>
        /\ Len(posts) <= 1
        /\ Len(procs) <= 1
        /\ pc = "exit" =>
            /\ exitCode = 0
            /\ posts = << [ url |-> cfgFile.val.feishu.webhookUrl.s,
                            title |-> Title,
                            summary |-> Cut(EventSummary, SummaryMax),
                            hasCwd |-> EventCwd # <<>>,
                            cwd |-> EventCwd ] >>
            /\ Len(procs) = 1
            /\ procs[1].content =
                 escape_for_powershell(Cut(EventSummary, ToastContentMax))

C3_Witness ==
    /\ EndToEnd
    /\ arg.value.msg = JStr(<<"d">>)
    /\ arg.value.cwd = JStr(Tmp)
    /\ pc = "exit" /\ exitCode = 0
    /\ Len(posts) = 1 /\ posts[1].summary = <<"d">> /\ posts[1].cwd = Tmp
    /\ Len(procs) = 1 /\ procs[1].content = <<"d">>

\* C4 as stated: once both senders are submitted, main is not blocked: its
\* exit from the with block is enabled whatever the senders are doing.
C4_DispatcherNeverBlocks ==
    pc = "shutdown" => ENABLED Shutdown

\* C4, amended: main blocks at the end of the with block until both senders
\* have finished; a process that dispatched has exited only after both
\* send_feishu and send_windows ended, and then with status 0, whatever
\* they returned or raised.
C4_ExitAfterSenders ==
    /\ (pc = "exit" /\ Dispatched) =>
          (fpc \in Finished /\ wpc \in Finished /\ exitCode = 0 /\ ~crashed)
    /\ (fpc \in {"queued", "posting"} \/ wpc \in {"queued", "running"}) =>
          exitCode = -1

C4_Witness ==
    /\ pc = "exit" /\ exitCode = 0
    /\ fpc = "done" /\ fres = "transport"
    /\ wpc = "raised"

FeishuFailed == fres \in {"error_code", "malformed", "transport"}
WindowsFailed == wres \in {"nonzero", "missing", "timeout"}

\* The channel is switched on in the configuration main loaded.
WindowsOn ==
    config.windows.k = "dict" /\ config.windows.enabled = JBool(TRUE)
FeishuOn ==
    /\ config.feishu.k = "dict"
    /\ config.feishu.enabled = JBool(TRUE)
    /\ config.feishu.webhookUrl = JStr(RealUrl)

\* C5: a delivery error in one sender stays in that sender: the sender
\* returns normally, and a run that dispatched exits only with both senders
\* invoked and finished, with status 0 and no traceback, whatever the two
\* outcomes; when one channel failed, the other, if switched on, has made
\* its one call and returned.
C5_DeliveryErrorsContained ==
    /\ FeishuFailed => fpc = "done"
    /\ WindowsFailed => wpc = "done"
    /\ (pc = "exit" /\ Dispatched) =>
          /\ exitCode = 0 /\ ~crashed
          /\ fpc \in Finished /\ wpc \in Finished
          /\ (FeishuFailed /\ WindowsOn) => (wpc = "done" /\ Len(procs) = 1)
          /\ (WindowsFailed /\ FeishuOn) => (fpc = "done" /\ Len(posts) = 1)

C5_Witness ==
    /\ pc = "exit" /\ exitCode = 0
    /\ fres = "malformed" /\ wres = "timeout"
    /\ fpc = "done" /\ wpc = "done"
    /\ Len(posts) = 1 /\ Len(procs) = 1

FeishuOff ==
    /\ config.k = "dict"
    /\ config.feishu.k \in {"absent", "dict"}
    /\ \/ config.feishu.enabled \in {Absent, JBool(FALSE)}
       \/ config.feishu.webhookUrl \in {Absent, JStr(<<>>)}
       \/ /\ config.feishu.webhookUrl.k = "str"
          /\ Contains(Placeholder, config.feishu.webhookUrl.s)

\* C6: with feishu.enabled false or absent, or webhookUrl missing, empty or
\* containing "YOUR_WEBHOOK_ID", send_feishu makes no network call and
\* returns normally, whatever the title, the summary and cwd are.
C6_FeishuNoOp ==
    FeishuOff =>
        /\ posts = <<>>
        /\ fres = "none"
        /\ fpc \in {"queued", "done"}

C6_Witness ==
    /\ FeishuOff
    /\ config.feishu.enabled = JBool(TRUE)
    /\ config.feishu.webhookUrl = JStr(PlaceholderMidUrl)
    /\ summary = JNull
    /\ fpc = "done"

WindowsOff ==
    /\ config.k = "dict"
    /\ config.windows.k \in {"absent", "dict"}
    /\ config.windows.enabled \in {Absent, JBool(FALSE)}

\* C7: with windows.enabled false or absent, send_windows makes no
\* subprocess call and returns normally, whatever the title and content are.
C7_WindowsNoOp ==
    WindowsOff =>
        /\ procs = <<>>
        /\ wres = "none"
        /\ wpc \in {"queued", "done"}

C7_Witness ==
    /\ WindowsOff
    /\ config.windows.k = "dict"
    /\ config.windows.enabled = Absent
    /\ summary = JNull
    /\ wpc = "done"

TruncateContract ==
    /\ Len(result) <= max_len + 3
    /\ Len(text) <= max_len => result = text
    /\ Len(text) > max_len =>
          result = [i \in 1..(max_len + 3) |->
                      IF i <= max_len THEN text[i] ELSE "."]

\* C8 as stated: for any string and any max_len, truncate returns at most
\* max_len + 3 characters: the input when it fits, else its first max_len
\* characters followed by "...".
C8_TruncateAnyMaxLen ==
    tpc = "done" => TruncateContract

\* C8, amended: the same for any string and any max_len >= 0.
C8_TruncateNonNegative ==
    (tpc = "done" /\ max_len >= 0) => TruncateContract

C8_Witness ==
    /\ tpc = "done"
    /\ max_len = 2
    /\ text = <<"a", "b", "b">>
    /\ result = <<"a", "b", ".", ".", ".">>

Entities == {AMP, LT, GT, QUOT, APOS}
EntityChar(e) ==
    CASE e = AMP -> "&" [] e = LT -> "<" [] e = GT -> ">"
      [] e = QUOT -> "\"" [] OTHER -> "'"
EntityAt(t, i) ==
    {e \in Entities : i + Len(e) - 1 <= Len(t) /\ SubSeq(t, i, i + Len(e) - 1) = e}

\* No markup character is left, and every & begins an entity.
MarkupSafe(t) ==
    \A i \in 1..Len(t) :
        /\ t[i] \notin {"<", ">", "\"", "'", "\n", "\r"}
        /\ t[i] = "&" => EntityAt(t, i) # {}

\* A markup-safe text read back: each entity as the character it stands for.
Decode(t) ==
    LET inside(i) == \E j \in (i - 5)..(i - 1) :
                        /\ j >= 1
                        /\ t[j] = "&"
                        /\ \E e \in EntityAt(t, j) : i < j + Len(e)
        kept == SelectSeq([i \in 1..Len(t) |-> i], LAMBDA i : ~inside(i))
    IN  [n \in 1..Len(kept) |->
            IF t[kept[n]] = "&"
            THEN EntityChar(CHOOSE e \in EntityAt(t, kept[n]) : TRUE)
            ELSE t[kept[n]]]

\* A text with each newline a space and each carriage return dropped.
OneLine(t) ==
    SelectSeq([i \in 1..Len(t) |-> IF t[i] = "\n" THEN " " ELSE t[i]],
              LAMBDA c : c # "\r")

\* C9: each text send_windows puts into the toast template has none of the
\* characters < > " ' newline and carriage return, every & in it begins one
\* of the five entities, and it reads back as the truncated title (content)
\* on one line: nothing is left unescaped and nothing is escaped twice.
C9_ToastTextEscaped ==
    \A i \in 1..Len(procs) :
        /\ MarkupSafe(procs[i].title)
        /\ MarkupSafe(procs[i].content)
        /\ Decode(procs[i].title) = OneLine(Cut(title.s, ToastTitleMax))
        /\ Decode(procs[i].content) = OneLine(Cut(summary.s, ToastContentMax))

C9_Witness ==
    /\ title = JStr(Pad(ToastTitleMax - 1) \o <<"&", "<">>)
    /\ summary = JStr(<<"'", "\n">>)
    /\ Len(procs) = 1
    /\ procs[1].title = Pad(ToastTitleMax - 1) \o AMP \o Ellipsis
    /\ procs[1].content = APOS \o <<" ">>

\* C10: every failure of the subprocess call (interpreter missing, non-zero
\* exit status, timeout) leaves a line on the error stream and the sender
\* returns normally.
C10_SubprocessFailureLogged ==
    WindowsFailed => (wpc = "done" /\ "windows_failed" \in Range(stderr))

=============================================================================
